---- MODULE Spec2Model ----
(***************************************************************************)
(* Logic-gate networks and the structural genetic search of the LGNN       *)
(* notebook (src/unnamed/part_000).                                        *)
(*                                                                         *)
(* Python objects are kept in two heaps: `neurons` holds the               *)
(* LogicGateNeuron objects, `layers` the `neurons` list of every           *)
(* LogicGateLayer object.  A network is the list of its layer objects, so  *)
(* two networks that share a layer or a neuron object are visible as such. *)
(* Input-index lists are only ever replaced, never changed in place, so a  *)
(* reference to one is modelled by its value.                              *)
(*                                                                         *)
(* Positions in TLA+ sequences are 1-based; the input indices stored in a  *)
(* gene and the random draws layer_idx / neuron_idx are the 0-based        *)
(* numbers of the source.                                                  *)
(***************************************************************************)
EXTENDS Integers, Sequences, FiniteSets, TLC

VARIABLES
    neurons,          \* heap: neuron object id -> [operator, inputs]
    layers,           \* heap: layer object id -> its list of neuron object ids
    layer_sizes,      \* layer_sizes argument of the network / the search
    input_size,       \* input_size argument of the network / the search
    network,          \* the experiment's `network` (list of layer ids)
    error,            \* the exception that ended the program, or "none"
    target_network,   \* GeneticAlgorithm.target_network
    target_structure, \* GeneticAlgorithm.target_structure
    population_size,  \* GeneticAlgorithm.population_size
    mutation_rate,    \* GeneticAlgorithm.mutation_rate   (in 1/RateUnit)
    crossover_rate,   \* GeneticAlgorithm.crossover_rate  (in 1/RateUnit)
    population,       \* GeneticAlgorithm.population (list of networks)
    max_fitness,      \* GA(): max_fitness
    generation,       \* GA(): generation
    new_population,   \* GA(): new_population
    parent1,          \* GA(): parent1
    parent2,          \* GA(): parent2
    child,            \* GA(): child
    best_network,     \* GA(): the returned best_network
    mutating,         \* network.mutate(): the neuron it is at, or << >>
    input_values,     \* argument of compute
    output,           \* result of compute
    pc                \* position of the program

vars == << neurons, layers, layer_sizes, input_size, network, error,
           target_network, target_structure, population_size, mutation_rate,
           crossover_rate, population, max_fitness, generation,
           new_population, parent1, parent2, child, best_network,
           mutating, input_values, output, pc >>

-----------------------------------------------------------------------------
(* Bounds of the model.                                                    *)

\* population_size of the searches with more than one individual
PopulationSize == 2

\* the generation counter is followed up to this value and then stays
MaxGeneration == 2

-----------------------------------------------------------------------------
(* Random draws.                                                           *)

\* rates and np.random.rand() are held in hundredths
RateUnit == 100

\* the values np.random.rand() is drawn from: [0, 1), so never RateUnit
RandValues == {0, 10, 50, 99}

\* faulty variant of RandBelow: `<=` written for `<`
RandAtMost(rate) == { r <= rate : r \in RandValues }

\* the outcomes of `np.random.rand() < rate`
RandBelow(rate) == { r < rate : r \in RandValues }

Min(a, b) == IF a < b THEN a ELSE b

\* np.random.choice(range(n), size=size, replace=False) raises ValueError
\* when the range is empty or holds fewer than `size` values
CanSample(n, size) == n > 0 /\ size <= n

\* faulty variant of Sample: the draw made with replacement
SampleWithReplacement(n, size) == [1..size -> 0..(n - 1)]

\* np.random.choice(range(n), size=size, replace=False).tolist()
Sample(n, size) ==
    { s \in [1..size -> 0..(n - 1)] :
        \A a, b \in 1..size : a # b => s[a] # s[b] }

-----------------------------------------------------------------------------
(* Genes.                                                                  *)

\* gate_functions.keys()
Operators == {"AND", "OR", "XOR", "NOT"}

\* LogicGateNeuron.__init__
Neuron(operator, inputs) == [operator |-> operator, inputs |-> inputs]

\* faulty variant of NumSelectedInputs: two indices for every operator
TwoSelectedInputs(operator) == 2

\* num_selected_inputs of LogicGateNeuron.mutate
NumSelectedInputs(operator) == IF operator = "NOT" THEN 1 ELSE 2

\* LogicGateNeuron.mutate raises (np.random.choice on an empty range)
NeuronMutateRaises(num_inputs) == num_inputs # 1 /\ num_inputs < 2

\* faulty variant of NeuronMutate: the operator draw never yields XOR
NeuronMutateWithoutXor(num_inputs) ==
    IF num_inputs = 1 THEN { Neuron("NOT", <<0>>) }
    ELSE UNION { { Neuron(operator, inputs) :
                     inputs \in Sample(num_inputs, NumSelectedInputs(operator)) } :
                 operator \in Operators \ {"XOR"} }

\* The genes LogicGateNeuron.mutate(num_inputs) can leave in the neuron
NeuronMutate(num_inputs) ==
    IF num_inputs = 1
    THEN { Neuron("NOT", <<0>>) }
    ELSE UNION { { Neuron(op, s) : s \in Sample(num_inputs, NumSelectedInputs(op)) } :
                 op \in Operators }

\* LogicGateLayer.__init__ raises
NewLayerRaises(num_neurons, num_inputs) ==
    num_neurons > 0 /\ ~CanSample(num_inputs, 2)

\* The neuron lists LogicGateLayer.__init__ can build: operator AND and two
\* distinct random inputs for each of range(num_neurons)
NewLayer(num_neurons, num_inputs) ==
    IF num_neurons <= 0
    THEN { << >> }
    ELSE [1..num_neurons -> { Neuron("AND", s) : s \in Sample(num_inputs, 2) }]

\* The loop of LogicGateNetwork.__init__ from current_input_size on
RECURSIVE NewNetworkRaises(_, _)
NewNetworkRaises(sizes, current_input_size) ==
    IF sizes = << >> THEN FALSE
    ELSE \/ NewLayerRaises(Head(sizes), current_input_size)
         \/ NewNetworkRaises(Tail(sizes), Head(sizes))

\* The genomes (layer by layer, neuron by neuron) LogicGateNetwork.__init__
\* can build when it does not raise
RECURSIVE NewNetwork(_, _)
NewNetwork(sizes, current_input_size) ==
    IF sizes = << >> THEN { << >> }
    ELSE { <<l>> \o rest :
             l \in NewLayer(Head(sizes), current_input_size),
             rest \in NewNetwork(Tail(sizes), Head(sizes)) }

-----------------------------------------------------------------------------
(* Objects.  The object of network slot k of region r ("T" the target,     *)
(* "P" the population, "N" the population being built) for layer i and     *)
(* neuron j has a fixed address; an address is reused only for an object   *)
(* that nothing refers to any more.                                        *)

LayerId(r, k, i) == <<r, k, i>>
NeuronId(r, k, i, j) == <<r, k, i, j>>

\* the network (list of layer objects) of a genome placed at (r, k)
NetAt(genome, r, k) == [i \in 1..Len(genome) |-> LayerId(r, k, i)]

\* the layer objects of a genome placed at (r, k)
LayersAt(genome, r, k) ==
    [id \in { LayerId(r, k, i) : i \in 1..Len(genome) } |->
        [j \in 1..Len(genome[id[3]]) |-> NeuronId(r, k, id[3], j)]]

\* the neuron objects of a genome placed at (r, k)
NeuronsAt(genome, r, k) ==
    [id \in UNION { { NeuronId(r, k, i, j) : j \in 1..Len(genome[i]) } :
                    i \in 1..Len(genome) } |->
        genome[id[3]][id[4]]]

\* the genes of network n, read through the heaps L (layers) and N (neurons)
Genome(n, L, N) ==
    [i \in 1..Len(n) |-> [j \in 1..Len(L[n[i]]) |-> N[L[n[i]][j]]]]

\* GeneticAlgorithm.net: per layer the (operator, inputs) pairs
Structure(n, L, N) ==
    [i \in 1..Len(n) |->
        [j \in 1..Len(L[n[i]]) |->
            << N[L[n[i]][j]].operator, N[L[n[i]][j]].inputs >>]]

net(n) == Structure(n, layers, neurons)

\* faulty variant of MatchingPositions: only the operators are compared
MatchingOperators(ts, cs) ==
    UNION { { <<i, j>> : j \in { x \in 1..Min(Len(ts[i]), Len(cs[i])) :
                                   ts[i][x][1] = cs[i][x][1] } } :
            i \in 1..Min(Len(ts), Len(cs)) }

Range(f) == { f[x] : x \in DOMAIN f }

\* faulty variant of MatchingPositions: the input lists are compared as sets
MatchingUnordered(ts, cs) ==
    UNION { { <<i, j>> : j \in { x \in 1..Min(Len(ts[i]), Len(cs[i])) :
                                   /\ ts[i][x][1] = cs[i][x][1]
                                   /\ Range(ts[i][x][2]) = Range(cs[i][x][2]) } } :
            i \in 1..Min(Len(ts), Len(cs)) }

\* GeneticAlgorithm.fitness against a target structure
MatchingPositions(ts, cs) ==
    UNION { { <<i, j>> : j \in { x \in 1..Min(Len(ts[i]), Len(cs[i])) :
                                   /\ ts[i][x][1] = cs[i][x][1]
                                   /\ ts[i][x][2] = cs[i][x][2] } } :
            i \in 1..Min(Len(ts), Len(cs)) }

fitness(n) == Cardinality(MatchingPositions(target_structure, net(n)))

RECURSIVE SumLen(_)
SumLen(s) == IF s = << >> THEN 0 ELSE Len(Head(s)) + SumLen(Tail(s))

-----------------------------------------------------------------------------
(* GeneticAlgorithm.select                                                 *)

\* np.exp(x) of a float64 is 0.0 for every integer x below -MinExpArgument
\* and positive from there on
MinExpArgument == 745

\* np.exp(x) for an integer x <= 0 in units of 1/10000, rounded down but
\* held at one unit for as long as the float64 is positive
RECURSIVE Exp(_)
Exp(x) ==
    IF x >= 0 THEN 10000
    ELSE IF x < -MinExpArgument THEN 0
    ELSE IF x < -9 THEN 1
    ELSE LET e == (Exp(x + 1) * 3679) \div 10000
         IN  IF e < 1 THEN 1 ELSE e

fitnesses == [k \in 1..Len(population) |-> fitness(population[k])]

MaxOf(f) == CHOOSE m \in { f[k] : k \in DOMAIN f } : \A k \in DOMAIN f : f[k] <= m

\* np.exp(fitnesses - np.max(fitnesses)), before normalisation
probabilities == [k \in 1..Len(population) |-> Exp(fitnesses[k] - MaxOf(fitnesses))]

\* the indices np.random.choice(self.population, p=probabilities) can draw
SelectChoices == { k \in 1..Len(population) : probabilities[k] > 0 }

-----------------------------------------------------------------------------
(* GeneticAlgorithm.crossover                                              *)

\* faulty variant of DeepCopy: copy.copy(parent), a new network sharing the layers
ShallowCopy(parent, k) ==
    [net |-> parent, layers |-> [x \in {} |-> << >>], neurons |-> [x \in {} |-> << >>]]

\* copy.deepcopy(parent): new layer and neuron objects at slot k of the
\* population being built
DeepCopy(parent, k) ==
    LET g == Genome(parent, layers, neurons)
    IN  [net     |-> NetAt(g, "N", k),
         layers  |-> LayersAt(g, "N", k),
         neurons |-> NeuronsAt(g, "N", k)]

\* the (i, j) positions visited by the two zips of crossover
CrossoverPositions(p1, p2) ==
    UNION { { <<i, j>> : j \in 1..Min(Len(layers[p1[i]]), Len(layers[p2[i]])) } :
            i \in 1..Min(Len(p1), Len(p2)) }

\* the draws `np.random.rand() < self.crossover_rate`, one per position
CrossoverDraws(p1, p2) == [CrossoverPositions(p1, p2) -> RandBelow(crossover_rate)]

\* the heaps and the child after crossover(p1, p2) under the draws `take`
CrossoverResult(p1, p2, k, take) ==
    LET c   == DeepCopy(p1, k)
        L0  == c.layers @@ layers
        N0  == c.neurons @@ neurons
        hit == { pos \in CrossoverPositions(p1, p2) : take[pos] }
        \* child.layers[i].neurons[j] = copy.deepcopy(neuron2)
        L1  == [id \in DOMAIN L0 |->
                  [j \in 1..Len(L0[id]) |->
                     IF \E pos \in hit : c.net[pos[1]] = id /\ pos[2] = j
                     THEN LET pos == CHOOSE q \in hit : c.net[q[1]] = id /\ q[2] = j
                          IN  NeuronId("N", k, pos[1], pos[2])
                     ELSE L0[id][j]]]
        new == [id \in { NeuronId("N", k, pos[1], pos[2]) : pos \in hit } |->
                  neurons[layers[p2[id[3]]][id[4]]]]
    IN  [net |-> c.net, layers |-> L1, neurons |-> new @@ N0]

-----------------------------------------------------------------------------
(* The search: GeneticAlgorithm.GA                                         *)

ga_vars == << layer_sizes, input_size, network, error, target_network,
              target_structure, population_size, mutation_rate,
              crossover_rate, mutating, input_values, output >>

\* faulty variant of NextChildPc: the loop builds one child too many
NextChildPcOneMore(built) == IF built <= population_size THEN "select1" ELSE "replace"

\* for _ in range(self.population_size): next child or end of the generation
NextChildPc(built) == IF built < population_size THEN "select1" ELSE "replace"

\* max_fitness = ...; generation = 0; while True: new_population = []
GA_Begin ==
    /\ pc = "ga"
    /\ max_fitness' = SumLen(target_structure)
    /\ generation' = 0
    /\ new_population' = << >>
    /\ pc' = NextChildPc(0)
    /\ UNCHANGED << neurons, layers, population, parent1, parent2, child,
                    best_network >>
    /\ UNCHANGED ga_vars

\* parent1 = self.select()
Select1 ==
    /\ pc = "select1"
    /\ \E k \in SelectChoices : parent1' = population[k]
    /\ pc' = "select2"
    /\ UNCHANGED << neurons, layers, population, max_fitness, generation,
                    new_population, parent2, child, best_network >>
    /\ UNCHANGED ga_vars

\* parent2 = self.select()
Select2 ==
    /\ pc = "select2"
    /\ \E k \in SelectChoices : parent2' = population[k]
    /\ pc' = "crossover"
    /\ UNCHANGED << neurons, layers, population, max_fitness, generation,
                    new_population, parent1, child, best_network >>
    /\ UNCHANGED ga_vars

\* child = self.crossover(parent1, parent2)
Crossover ==
    /\ pc = "crossover"
    /\ \E take \in CrossoverDraws(parent1, parent2) :
         LET r == CrossoverResult(parent1, parent2, Len(new_population) + 1, take)
         IN  /\ child' = r.net
             /\ layers' = r.layers
             /\ neurons' = r.neurons
    /\ pc' = "mutate"
    /\ UNCHANGED << population, max_fitness, generation, new_population,
                    parent1, parent2, best_network >>
    /\ UNCHANGED ga_vars

\* faulty variant of MutateNumInputs: layer 0 takes the width of layer 0
MutateNumInputsOwnWidth(n, layer_idx) ==
    IF layer_idx > 0 THEN Len(layers[n[layer_idx]]) ELSE Len(layers[n[1]])

\* num_inputs of GeneticAlgorithm.mutate for the 0-based layer_idx
MutateNumInputs(n, layer_idx) ==
    IF layer_idx > 0 THEN Len(layers[n[layer_idx]]) ELSE input_size

\* the neuron heaps GeneticAlgorithm.mutate(n) can leave
MutateResults(n) ==
    { neurons : draw \in { d \in RandBelow(mutation_rate) : ~d } }
    \cup
    UNION { UNION { { [neurons EXCEPT ![layers[n[layer_idx + 1]][neuron_idx + 1]] = g] :
                      g \in NeuronMutate(MutateNumInputs(n, layer_idx)) } :
                    neuron_idx \in 0..(Len(layers[n[layer_idx + 1]]) - 1) } :
            layer_idx \in { l \in 0..(Len(n) - 1) : TRUE \in RandBelow(mutation_rate) } }

\* self.mutate(child); new_population.append(child)
\* (parent1, parent2 and child are dead until they are assigned again)
Mutate ==
    /\ pc = "mutate"
    /\ \E N \in MutateResults(child) : neurons' = N
    /\ new_population' = Append(new_population, child)
    /\ parent1' = << >>
    /\ parent2' = << >>
    /\ child' = << >>
    /\ pc' = NextChildPc(Len(new_population) + 1)
    /\ UNCHANGED << layers, population, max_fitness, generation, best_network >>
    /\ UNCHANGED ga_vars

\* the address an object of the population being built has once that
\* population is self.population
Settled(id) == IF id[1] = "N" THEN <<"P">> \o Tail(id) ELSE id

\* an object survives `self.population = new_population` when a network of
\* the new population or the target still refers to it
Survives(id) == id[1] # "P"

\* max(self.population, key=self.fitness): the first individual of maximal
\* fitness, as an index into pop, fitness read through heaps L and N
Best(pop, L, N) ==
    LET f(k) == Cardinality(MatchingPositions(target_structure, Structure(pop[k], L, N)))
    IN  CHOOSE b \in 1..Len(pop) :
          /\ \A k \in 1..Len(pop) : f(k) <= f(b)
          /\ \A k \in 1..(b - 1) : f(k) < f(b)

\* self.population = new_population; best_network = max(...);
\* if best_fitness == max_fitness: return best_network; generation += 1
Replace ==
    /\ pc = "replace"
    /\ layers' = [id \in { Settled(x) : x \in { y \in DOMAIN layers : Survives(y) } } |->
                    LET x == CHOOSE y \in DOMAIN layers : Survives(y) /\ Settled(y) = id
                    IN  [j \in 1..Len(layers[x]) |-> Settled(layers[x][j])]]
    /\ neurons' = [id \in { Settled(x) : x \in { y \in DOMAIN neurons : Survives(y) } } |->
                     neurons[CHOOSE y \in DOMAIN neurons : Survives(y) /\ Settled(y) = id]]
    /\ population' = [k \in 1..Len(new_population) |->
                        [i \in 1..Len(new_population[k]) |-> Settled(new_population[k][i])]]
    /\ \E b \in { Best(population', layers', neurons') } :
       \E best_fitness \in { Cardinality(MatchingPositions(
                                 target_structure,
                                 Structure(population'[b], layers', neurons'))) } :
           IF best_fitness = max_fitness
           THEN /\ best_network' = population'[b]
                /\ pc' = "done"
                /\ new_population' = population'
                /\ UNCHANGED generation
           ELSE /\ generation' = Min(generation + 1, MaxGeneration)
                /\ new_population' = << >>
                /\ pc' = NextChildPc(0)
                /\ UNCHANGED best_network
    /\ UNCHANGED << max_fitness, parent1, parent2, child >>
    /\ UNCHANGED ga_vars

-----------------------------------------------------------------------------
(* The state after GeneticAlgorithm.__init__                               *)

\* the searches followed through their generations
Searches ==
    { [layer_sizes |-> <<1>>, input_size |-> 2, population_size |-> 2,
       targets |-> { << <<Neuron("OR", <<1, 0>>)>> >>, << <<Neuron("NOT", <<0>>)>> >> }],
      [layer_sizes |-> <<2, 1>>, input_size |-> 2, population_size |-> 1,
       targets |-> { << <<Neuron("AND", <<0, 1>>), Neuron("OR", <<0, 1>>)>>,
                        <<Neuron("XOR", <<0, 1>>)>> >> }] }

\* every way of building population_size networks
RECURSIVE NewPopulation(_, _, _)
NewPopulation(size, sizes, in) ==
    IF size = 0 THEN { << >> }
    ELSE { <<g>> \o rest : g \in NewNetwork(sizes, in),
                           rest \in NewPopulation(size - 1, sizes, in) }

RECURSIVE HeapOf(_, _, _)
HeapOf(genomes, k, acc) ==
    IF k > Len(genomes) THEN acc
    ELSE HeapOf(genomes, k + 1,
                [layers  |-> LayersAt(genomes[k], "P", k) @@ acc.layers,
                 neurons |-> NeuronsAt(genomes[k], "P", k) @@ acc.neurons])

\* GeneticAlgorithm(target_network=network, ..., layer_sizes, population_size,
\* mutation_rate, crossover_rate) with the target genome t
InitSearch(s, t, genomes, mr, cr) ==
    LET h == HeapOf(genomes, 1, [layers  |-> LayersAt(t, "T", 0),
                                 neurons |-> NeuronsAt(t, "T", 0)])
    IN  /\ layers = h.layers
        /\ neurons = h.neurons
        /\ layer_sizes = s.layer_sizes
        /\ input_size = s.input_size
        /\ network = NetAt(t, "T", 0)
        /\ error = "none"
        /\ target_network = NetAt(t, "T", 0)
        /\ target_structure = Structure(NetAt(t, "T", 0), h.layers, h.neurons)
        /\ population_size = s.population_size
        /\ mutation_rate = mr
        /\ crossover_rate = cr
        /\ population = [k \in 1..Len(genomes) |-> NetAt(genomes[k], "P", k)]
        /\ max_fitness = 0
        /\ generation = 0
        /\ new_population = << >>
        /\ parent1 = << >>
        /\ parent2 = << >>
        /\ child = << >>
        /\ best_network = << >>
        /\ mutating = << >>
        /\ input_values = << >>
        /\ output = << >>
        /\ pc = "ga"

\* the default rates of GeneticAlgorithm.__init__
DefaultMutationRate == 20
DefaultCrossoverRate == 50

Init ==
    \E s \in Searches :
    \E t \in s.targets :
    \E genomes \in NewPopulation(s.population_size, s.layer_sizes, s.input_size) :
        InitSearch(s, t, genomes, DefaultMutationRate, DefaultCrossoverRate)

Next == GA_Begin \/ Select1 \/ Select2 \/ Crossover \/ Mutate \/ Replace

Spec == Init /\ [][Next]_vars

-----------------------------------------------------------------------------
(* Fairness of the random draws.  The loop of GA() keeps running, and      *)
(* every outcome of the draws of mutate has a probability bounded away     *)
(* from 0: when again and again a child with d wrong genes is about to be  *)
(* mutated, the draws repair one of its genes in the end, or leave it      *)
(* alone when none is wrong.                                               *)

RECURSIVE SumSizes(_)
SumSizes(sizes) == IF sizes = << >> THEN 0 ELSE Head(sizes) + SumSizes(Tail(sizes))

\* the number of genes of n that differ from the target's, read through
\* the heaps L and N
Wrong(n, L, N) ==
    SumLen(target_structure)
      - Cardinality(MatchingPositions(target_structure, Structure(n, L, N)))

\* self.mutate(child) on a child with d wrong genes leaves one wrong gene
\* less, or none if none was wrong
Repair(d) ==
    /\ pc = "mutate"
    /\ Wrong(child, layers, neurons) = d
    /\ Mutate
    /\ Wrong(child, layers', neurons') = (IF d = 0 THEN 0 ELSE d - 1)

MaxWrong ==
    CHOOSE m \in { SumSizes(s.layer_sizes) : s \in Searches } :
        \A s \in Searches : SumSizes(s.layer_sizes) <= m

FairSpec ==
    Spec /\ WF_vars(Next) /\ \A d \in 0..MaxWrong : SF_vars(Repair(d))

-----------------------------------------------------------------------------
(* The operators of one child: select, select, crossover, mutate on a      *)
(* population of any legal genes.                                          *)

\* a search whose layer 1 has more inputs than layer 0
OpsSearch ==
    [layer_sizes |-> <<3, 1>>, input_size |-> 2, population_size |-> PopulationSize]

OpsTarget ==
    << <<Neuron("AND", <<0, 1>>), Neuron("OR", <<1, 0>>), Neuron("NOT", <<1>>)>>,
       <<Neuron("XOR", <<2, 0>>)>> >>

\* individuals as generations of crossover and mutation leave them
OpsIndividuals ==
    { OpsTarget,
      << <<Neuron("AND", <<1, 0>>), Neuron("OR", <<1, 0>>), Neuron("NOT", <<1>>)>>,
         <<Neuron("XOR", <<2, 0>>)>> >>,
      << <<Neuron("NOT", <<0>>), Neuron("XOR", <<0, 1>>), Neuron("AND", <<0, 1>>)>>,
         <<Neuron("NOT", <<2>>)>> >> }

RECURSIVE Populations(_, _)
Populations(size, individuals) ==
    IF size = 0 THEN { << >> }
    ELSE { <<g>> \o rest : g \in individuals, rest \in Populations(size - 1, individuals) }

OpsInit ==
    \E genomes \in Populations(OpsSearch.population_size, OpsIndividuals) :
    \E mr \in {0, DefaultMutationRate, RateUnit} :
    \E cr \in {0, DefaultCrossoverRate, RateUnit} :
        InitSearch(OpsSearch, OpsTarget, genomes, mr, cr)

\* the first child of the first generation is being built
FirstChild == new_population = << >>

OpsNext ==
    \/ FirstChild /\ GA_Begin
    \/ FirstChild /\ Select1
    \/ FirstChild /\ Select2
    \/ FirstChild /\ Crossover
    \/ FirstChild /\ Mutate

SpecOps == OpsInit /\ [][OpsNext]_vars

-----------------------------------------------------------------------------
(* select() on a population of wide networks, where the fitness of two     *)
(* individuals can differ by more than np.exp can resolve.                 *)

\* neurons of the one layer of the wide networks
WideLayer == 746

WideSearch ==
    [layer_sizes |-> <<WideLayer>>, input_size |-> 2, population_size |-> 3]

\* a one-layer genome whose first `matching` neurons are OR(0, 1) and whose
\* other neurons are AND(0, 1)
WideGenome(matching) ==
    << [j \in 1..WideLayer |->
          IF j <= matching THEN Neuron("OR", <<0, 1>>) ELSE Neuron("AND", <<0, 1>>)] >>

WideTarget == WideGenome(WideLayer)

WideIndividuals == { WideGenome(0), WideGenome(1), WideGenome(WideLayer) }

SelectInit ==
    \E genomes \in Populations(WideSearch.population_size, WideIndividuals) :
        InitSearch(WideSearch, WideTarget, genomes,
                   DefaultMutationRate, DefaultCrossoverRate)

SelectNext == GA_Begin \/ Select1 \/ Select2

SpecSelect == SelectInit /\ [][SelectNext]_vars

-----------------------------------------------------------------------------
(* Building and re-randomising a network: LogicGateNetwork.__init__ and    *)
(* LogicGateNetwork.mutate                                                 *)

\* most layers, widest layer, most neurons and largest input_size tried
MaxLayers == 2
MaxWidth == 2
MaxNeurons == 3
MaxInputSize == 3

RECURSIVE Sizes(_)
Sizes(len) ==
    IF len = 0 THEN { << >> }
    ELSE { <<w>> \o rest : w \in (-1)..MaxWidth, rest \in Sizes(len - 1) }

RECURSIVE Positive(_)
Positive(sizes) ==
    IF sizes = << >> THEN 0
    ELSE (IF Head(sizes) > 0 THEN Head(sizes) ELSE 0) + Positive(Tail(sizes))

LayerSizes == { sizes \in UNION { Sizes(len) : len \in 0..MaxLayers } :
                  Positive(sizes) <= MaxNeurons }

net_vars == << layer_sizes, input_size, target_network, target_structure,
               population_size, mutation_rate, crossover_rate, population,
               max_fitness, generation, new_population, parent1, parent2,
               child, best_network, input_values, output >>

Idle ==
    /\ target_network = << >>
    /\ target_structure = << >>
    /\ population_size = 0
    /\ mutation_rate = 0
    /\ crossover_rate = 0
    /\ population = << >>
    /\ max_fitness = 0
    /\ generation = 0
    /\ new_population = << >>
    /\ parent1 = << >>
    /\ parent2 = << >>
    /\ child = << >>
    /\ best_network = << >>

NetInit ==
    /\ layer_sizes \in LayerSizes
    /\ input_size \in (-1)..MaxInputSize
    /\ neurons = << >>
    /\ layers = << >>
    /\ network = << >>
    /\ error = "none"
    /\ mutating = << >>
    /\ input_values = << >>
    /\ output = << >>
    /\ pc = "new"
    /\ Idle

\* network = LogicGateNetwork(layer_sizes, input_size)
NewNetworkCall ==
    /\ pc = "new"
    /\ IF NewNetworkRaises(layer_sizes, input_size)
       THEN /\ error' = "ValueError"
            /\ pc' = "raised"
            /\ UNCHANGED << neurons, layers, network >>
       ELSE \E g \in NewNetwork(layer_sizes, input_size) :
              /\ neurons' = NeuronsAt(g, "T", 0)
              /\ layers' = LayersAt(g, "T", 0)
              /\ network' = NetAt(g, "T", 0)
              /\ pc' = "built"
              /\ UNCHANGED error
    /\ UNCHANGED mutating
    /\ UNCHANGED net_vars

\* faulty variant of NetworkMutateNumInputs: layer 0 takes input_size
NetworkMutateNumInputsConfigured(n, i) ==
    IF i > 0 THEN Len(layers[n[i]]) ELSE input_size

\* num_inputs of LogicGateNetwork.mutate for the 0-based layer i
NetworkMutateNumInputs(n, i) ==
    IF i > 0 THEN Len(layers[n[i]])
    ELSE Len(neurons[layers[n[1]][1]].inputs)

\* len(self.layers[0].neurons[0].inputs) raises IndexError on an empty layer 0
NetworkMutateRaises(n) == Len(n) > 0 /\ Len(layers[n[1]]) = 0

\* the 0-based layers from i on that hold a neuron
LayersToMutate(n, i) == { l \in i..(Len(n) - 1) : Len(layers[n[l + 1]]) > 0 }

\* the loops of LogicGateNetwork.mutate and LogicGateLayer.mutate, entered at
\* layer i: the first neuron to re-randomise and the num_inputs of its
\* layer, or << >> when the loops are over
MutateFrame(n, i) ==
    IF LayersToMutate(n, i) = {} THEN << >>
    ELSE LET l == CHOOSE x \in LayersToMutate(n, i) :
                    \A y \in LayersToMutate(n, i) : x <= y
         IN  [layer |-> l, neuron |-> 0, num_inputs |-> NetworkMutateNumInputs(n, l)]

\* network.mutate() is called
NetworkMutate ==
    /\ pc = "built"
    /\ IF NetworkMutateRaises(network)
       THEN /\ error' = "IndexError"
            /\ pc' = "raised"
            /\ UNCHANGED mutating
       ELSE /\ mutating' = MutateFrame(network, 0)
            /\ pc' = IF mutating' = << >> THEN "built" ELSE "mutating"
            /\ UNCHANGED error
    /\ UNCHANGED << neurons, layers, network >>
    /\ UNCHANGED net_vars

\* neuron.mutate(num_inputs) on the next neuron of network.mutate()
NeuronMutateCall ==
    /\ pc = "mutating"
    /\ LET id == layers[network[mutating.layer + 1]][mutating.neuron + 1]
       IN  IF NeuronMutateRaises(mutating.num_inputs)
           THEN \* self.operator is assigned before np.random.choice raises
                /\ \E op \in Operators :
                     neurons' = [neurons EXCEPT ![id].operator = op]
                /\ error' = "ValueError"
                /\ pc' = "raised"
                /\ UNCHANGED mutating
           ELSE /\ \E g \in NeuronMutate(mutating.num_inputs) :
                     neurons' = [neurons EXCEPT ![id] = g]
                /\ mutating' =
                     IF mutating.neuron + 1 < Len(layers[network[mutating.layer + 1]])
                     THEN [mutating EXCEPT !.neuron = @ + 1]
                     ELSE MutateFrame(network, mutating.layer + 1)
                /\ pc' = IF mutating' = << >> THEN "built" ELSE "mutating"
                /\ UNCHANGED error
    /\ UNCHANGED << layers, network >>
    /\ UNCHANGED net_vars

NetNext == NewNetworkCall \/ NetworkMutate \/ NeuronMutateCall

SpecNet == NetInit /\ [][NetNext]_vars

-----------------------------------------------------------------------------
(* Evaluating a neuron: the gate functions and LogicGateNeuron.compute     *)

\* a & b, a | b, a ^ b on non-negative integers, bit by bit
RECURSIVE BitAnd(_, _)
BitAnd(a, b) ==
    IF a = 0 \/ b = 0 THEN 0
    ELSE 2 * BitAnd(a \div 2, b \div 2) + (IF a % 2 = 1 /\ b % 2 = 1 THEN 1 ELSE 0)

RECURSIVE BitOr(_, _)
BitOr(a, b) ==
    IF a = 0 THEN b
    ELSE IF b = 0 THEN a
    ELSE 2 * BitOr(a \div 2, b \div 2) + (IF a % 2 = 1 \/ b % 2 = 1 THEN 1 ELSE 0)

RECURSIVE BitXor(_, _)
BitXor(a, b) ==
    IF a = 0 THEN b
    ELSE IF b = 0 THEN a
    ELSE 2 * BitXor(a \div 2, b \div 2) + (IF a % 2 # b % 2 THEN 1 ELSE 0)

\* ~a of a Python integer
Invert(a) == (-a) - 1

\* faulty variant of XOR: `|` written for `^`
XorAsOr(a, b) == BitOr(a, b)

AND(a, b) == BitAnd(a, b)
OR(a, b) == BitOr(a, b)
XOR(a, b) == BitXor(a, b)
\* ~a & 1: the lowest bit of the two's complement of ~a
NOT(a) == Invert(a) % 2

\* gate_functions[operator](a, b)
gate_functions(operator, a, b) ==
    CASE operator = "AND" -> AND(a, b)
      [] operator = "OR"  -> OR(a, b)
      [] operator = "XOR" -> XOR(a, b)

\* values[i] of a Python sequence: negative indices count from the end
ValidIndex(values, i) == -Len(values) <= i /\ i < Len(values)
Item(values, i) == values[(i % Len(values)) + 1]

Returned(v) == [raised |-> "none", value |-> v]
Raised(e) == [raised |-> e]

\* LogicGateNeuron.compute(input_values) of the neuron nr
NeuronCompute(nr, values) ==
    IF nr.operator = "NOT"
    THEN IF Len(nr.inputs) = 0 \/ ~ValidIndex(values, nr.inputs[1])
         THEN Raised("IndexError")
         ELSE Returned(NOT(Item(values, nr.inputs[1])))
    ELSE IF Len(nr.inputs) = 2
         THEN IF ~ValidIndex(values, nr.inputs[1]) \/ ~ValidIndex(values, nr.inputs[2])
              THEN Raised("IndexError")
              ELSE Returned(gate_functions(nr.operator,
                                           Item(values, nr.inputs[1]),
                                           Item(values, nr.inputs[2])))
         ELSE Raised("ValueError")

\* longest explicit input list tried
MaxListLen == 3

\* the input lists LogicGateNeuron(operator, inputs) is built with
ExplicitInputs == UNION { [1..len -> 0..(MaxInputSize - 1)] : len \in 0..MaxListLen }

\* the input vectors of generate_data: np.random.randint(0, 2, size=input_size)
InputVectors(size) == [1..size -> {0, 1}]

\* the neuron under evaluation
EvalNeuron == NeuronId("T", 0, 1, 1)

\* a one-neuron layer holding LogicGateNeuron(operator, inputs), and an
\* input vector
EvalInit ==
    /\ \E op \in Operators : \E ins \in ExplicitInputs :
         neurons = (EvalNeuron :> Neuron(op, ins))
    /\ layers = (LayerId("T", 0, 1) :> << EvalNeuron >>)
    /\ network = << LayerId("T", 0, 1) >>
    /\ layer_sizes = << 1 >>
    /\ input_size \in 2..MaxInputSize
    /\ input_values \in InputVectors(input_size)
    /\ error = "none"
    /\ mutating = << >>
    /\ output = << >>
    /\ pc = "eval"
    /\ Idle

\* output = neuron.compute(input_values)
NeuronComputeCall ==
    /\ pc = "eval"
    /\ output' = NeuronCompute(neurons[EvalNeuron], input_values)
    /\ pc' = "evaluated"
    /\ UNCHANGED << neurons, layers, network, error, mutating, input_values >>
    /\ UNCHANGED << layer_sizes, input_size, target_network, target_structure,
                    population_size, mutation_rate, crossover_rate, population,
                    max_fitness, generation, new_population, parent1, parent2,
                    child, best_network >>

EvalNext == NeuronComputeCall

SpecEval == EvalInit /\ [][EvalNext]_vars

-----------------------------------------------------------------------------
(* Evaluating a network: LogicGateLayer.compute, LogicGateNetwork.compute  *)

\* [neuron.compute(input_values) for neuron in self.neurons], from neuron j
\* on: the first exception ends the comprehension
RECURSIVE LayerComputeFrom(_, _, _, _)
LayerComputeFrom(l, j, values, acc) ==
    IF j > Len(layers[l]) THEN Returned(acc)
    ELSE LET r == NeuronCompute(neurons[layers[l][j]], values)
         IN  IF r.raised # "none" THEN r
             ELSE LayerComputeFrom(l, j + 1, values, Append(acc, r.value))

\* faulty variant of LayerCompute: the bits are collected in reverse order
LayerComputeReversed(l, values) ==
    LET r == LayerComputeFrom(l, 1, values, << >>)
    IN  IF r.raised # "none" THEN r
        ELSE Returned([j \in 1..Len(r.value) |-> r.value[Len(r.value) + 1 - j]])

\* LogicGateLayer.compute(input_values) of the layer l
LayerCompute(l, values) == LayerComputeFrom(l, 1, values, << >>)

\* for layer in self.layers: input_values = layer.compute(input_values),
\* from layer i on
RECURSIVE NetworkComputeFrom(_, _, _)
NetworkComputeFrom(n, i, values) ==
    IF i > Len(n) THEN Returned(values)
    ELSE LET r == LayerCompute(n[i], values)
         IN  IF r.raised # "none" THEN r
             ELSE NetworkComputeFrom(n, i + 1, r.value)

\* LogicGateNetwork.compute(input_values)
NetworkCompute(n, values) == NetworkComputeFrom(n, 1, values)

\* the topologies evaluated, each with input_size 2
ComputeSizes == { <<2, 1>>, <<2, 2>> }

\* every genome network.mutate() and the search can leave in a network
\* of the given sizes
RECURSIVE Genomes(_, _)
Genomes(sizes, current_input_size) ==
    IF sizes = << >> THEN { << >> }
    ELSE { <<layer>> \o rest :
             layer \in [1..Head(sizes) -> NeuronMutate(current_input_size)],
             rest \in Genomes(Tail(sizes), Head(sizes)) }

\* evaluations of one input vector by generate_data
ComputeCalls == 2

\* a network with any legal genes and an input vector of generate_data
ComputeInit ==
    /\ layer_sizes \in ComputeSizes
    /\ input_size = 2
    /\ \E g \in Genomes(layer_sizes, input_size) :
         /\ neurons = NeuronsAt(g, "T", 0)
         /\ layers = LayersAt(g, "T", 0)
         /\ network = NetAt(g, "T", 0)
    /\ input_values \in InputVectors(input_size)
    /\ error = "none"
    /\ mutating = << >>
    /\ output = << >>
    /\ pc = "compute"
    /\ Idle

\* outputs.append(network.compute(inp))
NetworkComputeCall ==
    /\ pc = "compute"
    /\ output' = Append(output, NetworkCompute(network, input_values))
    /\ pc' = IF Len(output') < ComputeCalls THEN "compute" ELSE "computed"
    /\ UNCHANGED << neurons, layers, network, error, mutating, input_values >>
    /\ UNCHANGED << layer_sizes, input_size, target_network, target_structure,
                    population_size, mutation_rate, crossover_rate, population,
                    max_fitness, generation, new_population, parent1, parent2,
                    child, best_network >>

ComputeNext == NetworkComputeCall

SpecCompute == ComputeInit /\ [][ComputeNext]_vars

-----------------------------------------------------------------------------
(* GA() on a target that was not built by the constructor and mutate: one  *)
(* of its genes has two equal indices or an index outside range(num_inputs) *)

UnreachableSearches ==
    { [layer_sizes |-> <<1>>, input_size |-> 2, population_size |-> 2,
       targets |-> { << <<Neuron("AND", <<0, 0>>)>> >>, << <<Neuron("NOT", <<2>>)>> >> }],
      [layer_sizes |-> <<2, 1>>, input_size |-> 2, population_size |-> 1,
       targets |-> { << <<Neuron("AND", <<0, 1>>), Neuron("OR", <<0, 1>>)>>,
                        <<Neuron("XOR", <<0, 2>>)>> >> }] }

UnreachableInit ==
    \E s \in UnreachableSearches :
    \E t \in s.targets :
    \E genomes \in NewPopulation(s.population_size, s.layer_sizes, s.input_size) :
        InitSearch(s, t, genomes, DefaultMutationRate, DefaultCrossoverRate)

\* the while True loop of GA() keeps taking steps
SpecUnreachable == UnreachableInit /\ [][Next]_vars /\ WF_vars(Next)

-----------------------------------------------------------------------------
(* network.mutate() on the target network after the search has taken its   *)
(* fingerprint and GA() has returned.  The tuples of target_structure hold *)
(* the operator strings and the inputs list objects the target's neurons   *)
(* held when net() ran.                                                    *)

\* the genomes the loops of LogicGateNetwork.mutate can leave in n from the
\* 0-based layer i on; each num_inputs is read before its layer is mutated
RECURSIVE NetworkMutateResults(_, _)
NetworkMutateResults(n, i) ==
    IF i >= Len(n) THEN { << >> }
    ELSE { <<l>> \o rest :
             l \in [1..Len(layers[n[i + 1]]) ->
                      NeuronMutate(NetworkMutateNumInputs(n, i))],
             rest \in NetworkMutateResults(n, i + 1) }

\* faulty variant of Rebound: the new indices are written into the list
\* object the neuron already holds, which the tuples of the fingerprint share
WrittenInPlace(structure, g) ==
    [i \in DOMAIN structure |->
        [j \in DOMAIN structure[i] |-> << structure[i][j][1], g[i][j].inputs >>]]

\* A fingerprint of the network after self.operator = ... and
\* self.inputs = ... have bound new objects to the neurons' attributes: its
\* tuples keep the objects they were built from
Rebound(structure, g) == structure

\* self.target_network.mutate() after GA() has returned
TargetMutate ==
    /\ pc = "done"
    /\ ~NetworkMutateRaises(target_network)
    /\ \A i \in 0..(Len(target_network) - 1) :
         ~NeuronMutateRaises(NetworkMutateNumInputs(target_network, i))
    /\ \E g \in NetworkMutateResults(target_network, 0) :
         /\ neurons' = NeuronsAt(g, "T", 0) @@ neurons
         /\ target_structure' = Rebound(target_structure, g)
    /\ UNCHANGED << layers, layer_sizes, input_size, network, error,
                    target_network, population_size, mutation_rate,
                    crossover_rate, population, max_fitness, generation,
                    new_population, parent1, parent2, child, best_network,
                    mutating, input_values, output, pc >>

TargetNext == Next \/ TargetMutate

SpecTarget == Init /\ [][TargetNext]_vars

-----------------------------------------------------------------------------
(* GA() on targets that the constructor itself can build, so that the      *)
(* initial population can hold the target's genes.                         *)

ConstructibleSearches ==
    { [layer_sizes |-> <<1>>, input_size |-> 2, population_size |-> 2,
       targets |-> { << <<Neuron("AND", <<0, 1>>)>> >> }],
      [layer_sizes |-> <<2, 1>>, input_size |-> 2, population_size |-> 1,
       targets |-> { << <<Neuron("AND", <<0, 1>>), Neuron("AND", <<1, 0>>)>>,
                        <<Neuron("AND", <<0, 1>>)>> >> }] }

ConstructibleInit ==
    \E s \in ConstructibleSearches :
    \E t \in s.targets :
    \E genomes \in NewPopulation(s.population_size, s.layer_sizes, s.input_size) :
        InitSearch(s, t, genomes, DefaultMutationRate, DefaultCrossoverRate)

SpecConstructible == ConstructibleInit /\ [][Next]_vars

-----------------------------------------------------------------------------
(* Properties.                                                             *)

\* the networks the search holds: the population, the children built so
\* far and the child between crossover and mutate
Individuals ==
    { population[k] : k \in 1..Len(population) }
      \cup { new_population[k] : k \in 1..Len(new_population) }
      \cup (IF pc = "mutate" THEN { child } ELSE {})

\* the number of neurons of a network
RECURSIVE CountNeurons(_, _)
CountNeurons(n, i) ==
    IF i > Len(n) THEN 0 ELSE Len(layers[n[i]]) + CountNeurons(n, i + 1)

TotalNeurons(n) == CountNeurons(n, 1)

\* the (layer, neuron) positions of a network
Positions(n) ==
    UNION { { <<i, j>> : j \in 1..Len(layers[n[i]]) } : i \in 1..Len(n) }

\* the gene of network n at a position
GeneAt(n, pos) == neurons[layers[n[pos[1]]][pos[2]]]

\* C1: when GA() has returned, the returned network is a member of the
\* population just built, its fitness is the total neuron count of the
\* target, and its fingerprint equals target_structure operator for
\* operator and input list for input list at every position.
C1_ReturnsExactMatch ==
    pc = "done" =>
        /\ \E k \in 1..Len(population) : population[k] = best_network
        /\ fitness(best_network) = TotalNeurons(target_network)
        /\ net(best_network) = target_structure
        /\ Positions(best_network) = Positions(target_network)
        /\ \A pos \in Positions(best_network) :
             /\ GeneAt(best_network, pos).operator = target_structure[pos[1]][pos[2]][1]
             /\ GeneAt(best_network, pos).inputs = target_structure[pos[1]][pos[2]][2]

\* GA() has returned a two-layer network after more than one generation
C1_Witness ==
    /\ pc = "done"
    /\ Len(best_network) = 2
    /\ generation > 0

Arity(operator) == IF operator \in {"AND", "OR", "XOR"} THEN 2 ELSE 1

\* the gene invariant for a neuron whose layer has num_inputs inputs
GeneInvariant(g, num_inputs) ==
    /\ g.operator \in Operators
    /\ Len(g.inputs) = Arity(g.operator)
    /\ \A a, b \in 1..Len(g.inputs) : a # b => g.inputs[a] # g.inputs[b]
    /\ \A a \in 1..Len(g.inputs) : g.inputs[a] >= 0 /\ g.inputs[a] < num_inputs

\* C3: in every reachable state of the search every neuron of every
\* individual has as many inputs as its operator's arity, pairwise distinct
\* and within [0, input count of its layer), and every individual keeps the
\* neuron counts of layer_sizes.
C3_GeneInvariant ==
    \A n \in Individuals :
        /\ Len(n) = Len(layer_sizes)
        /\ \A i \in 1..Len(n) :
             /\ Len(layers[n[i]]) = layer_sizes[i]
             /\ \A j \in 1..Len(layers[n[i]]) :
                  GeneInvariant(neurons[layers[n[i]][j]],
                                IF i = 1 THEN input_size ELSE Len(layers[n[i - 1]]))

\* after a generation, a child about to be mutated carries a NOT gene in
\* its second layer
C3_Witness ==
    /\ pc = "mutate"
    /\ generation > 0
    /\ Len(child) = 2
    /\ GeneAt(child, <<2, 1>>).operator = "NOT"

\* C4: crossover with crossover_rate 0 returns parent1's fingerprint, with
\* crossover_rate 1 parent2's, and for any rate every gene of the child is
\* parent1's or parent2's gene at the same position.
C4_CrossoverGenes ==
    pc = "mutate" =>
        /\ crossover_rate = 0 => net(child) = net(parent1)
        /\ crossover_rate = RateUnit => net(child) = net(parent2)
        /\ Positions(child) = Positions(parent1)
        /\ \A pos \in Positions(child) :
             GeneAt(child, pos) \in { GeneAt(parent1, pos), GeneAt(parent2, pos) }

\* crossover at rate 1 of two parents that differ
C4_Witness ==
    /\ pc = "mutate"
    /\ crossover_rate = RateUnit
    /\ net(parent1) # net(parent2)
    /\ net(child) = net(parent2)

\* the layer and neuron objects of a network
Objects(n) ==
    { n[i] : i \in 1..Len(n) } \cup { layers[n[pos[1]]][pos[2]] : pos \in Positions(n) }

\* C5: the child of crossover shares no layer and no neuron with a member
\* of the population or with another child, and neither crossover nor the
\* mutation of a child changes the fingerprint of a member of the
\* population (its parents among them, also when they are one individual)
\* or of a child built before.
C5_ChildIndependent ==
    [][ /\ pc = "mutate" =>
            \A n \in Individuals \ { child } : Objects(n) \cap Objects(child) = {}
        /\ pc \in {"crossover", "mutate"} =>
            \A n \in Individuals \ { child } :
                Structure(n, layers', neurons') = Structure(n, layers, neurons) ]_vars

\* two children have been built that differ from each other and from every
\* member of the population
C5_Witness ==
    /\ pc = "replace"
    /\ Len(new_population) = 2
    /\ net(new_population[1]) # net(new_population[2])
    /\ \A k \in 1..Len(population) :
         /\ net(population[k]) # net(new_population[1])
         /\ net(population[k]) # net(new_population[2])

\* C6: fitness is the number of positions at which the candidate's gene
\* equals the target's in operator and in input sequence, so it lies
\* between 0 and the target's neuron count, reaches that count exactly for
\* the target's fingerprint, and does so for the target network itself,
\* which is the threshold max_fitness of GA().
C6_FitnessCounts ==
    /\ \A n \in Individuals \cup { target_network } :
         /\ fitness(n) = Cardinality({ pos \in Positions(n) \cap Positions(target_network) :
                                         GeneAt(n, pos) = GeneAt(target_network, pos) })
         /\ 0 <= fitness(n)
         /\ fitness(n) <= TotalNeurons(target_network)
         /\ fitness(n) = TotalNeurons(target_network) <=> net(n) = target_structure
    /\ pc # "ga" => fitness(target_network) = max_fitness

\* the population holds an exact match and an individual that differs from
\* the target only in the order of one input list, and the child is in
\* between
C6_Witness ==
    /\ pc = "mutate"
    /\ \E k \in 1..Len(population) : fitness(population[k]) = max_fitness
    /\ \E k \in 1..Len(population) :
         /\ fitness(population[k]) = max_fitness - 1
         /\ GeneAt(population[k], <<1, 1>>).inputs = <<1, 0>>
         /\ GeneAt(target_network, <<1, 1>>).inputs = <<0, 1>>
    /\ fitness(child) > 0
    /\ fitness(child) < max_fitness

\* C7: a network with layer_sizes = [1] and input_size = 1 can be built,
\* and every mutation leaves its only neuron as NOT with inputs [0].
C7_SingleNeuronNetwork ==
    [][ (layer_sizes = <<1>> /\ input_size = 1) =>
          /\ pc = "new" => pc' = "built"
          /\ pc = "mutating" =>
               \A id \in DOMAIN neurons' : neurons'[id] = Neuron("NOT", <<0>>) ]_vars

\* C8: evaluating a neuron whose input list is not as long as its
\* operator's arity raises the invalid-arity error and returns no bit.
C8_ArityMismatchRaises ==
    (pc = "evaluated"
        /\ Len(neurons[EvalNeuron].inputs) # Arity(neurons[EvalNeuron].operator))
      => output = Raised("ValueError")

\* C9: building a network raises whenever input_size or an entry of
\* layer_sizes is not positive, so no network with such a layer exists.
C9_RejectsNonPositive ==
    (pc # "new" /\ (input_size <= 0 \/ \E i \in 1..Len(layer_sizes) : layer_sizes[i] <= 0))
      => (pc = "raised" /\ error = "ValueError" /\ network = << >>)

\* the standard truth tables
TruthTable(operator, a, b) ==
    CASE operator = "AND" -> IF a = 1 /\ b = 1 THEN 1 ELSE 0
      [] operator = "OR"  -> IF a = 1 \/ b = 1 THEN 1 ELSE 0
      [] operator = "XOR" -> IF a # b THEN 1 ELSE 0
      [] operator = "NOT" -> 1 - a

\* C10: a neuron that satisfies the arity invariant evaluates to the
\* standard truth table of its operator applied to the input values its
\* indices select; the result is 0 or 1 and, for a binary operator, the
\* same with the two indices exchanged.
C10_TruthTables ==
    LET g == neurons[EvalNeuron]
        a == input_values[g.inputs[1] + 1]
        b == input_values[g.inputs[Len(g.inputs)] + 1]
    IN  (pc = "evaluated"
            /\ Len(g.inputs) = Arity(g.operator)
            /\ \A x \in 1..Len(g.inputs) : g.inputs[x] < Len(input_values))
          => /\ output = Returned(TruthTable(g.operator, a, b))
             /\ output.value \in {0, 1}
             /\ Len(g.inputs) = 2 =>
                  NeuronCompute(Neuron(g.operator, <<g.inputs[2], g.inputs[1]>>),
                                input_values) = output

\* an XOR neuron has been evaluated on two different bits
C10_Witness ==
    /\ pc = "evaluated"
    /\ neurons[EvalNeuron] = Neuron("XOR", <<1, 0>>)
    /\ input_values[1] # input_values[2]
    /\ output = Returned(1)

\* the bits of layer i (1-based) of the network for the input vector v:
\* layer 0 is v itself
RECURSIVE LayerBits(_, _)
LayerBits(i, v) ==
    IF i = 0 THEN v
    ELSE LET below == LayerBits(i - 1, v)
             g(j)  == neurons[layers[network[i]][j]]
         IN  [j \in 1..Len(layers[network[i]]) |->
                TruthTable(g(j).operator,
                           below[g(j).inputs[1] + 1],
                           below[g(j).inputs[Len(g(j).inputs)] + 1])]

\* C11: every evaluation of a network returns the bits of its last layer,
\* where layer 0 is evaluated on the input vector and layer i+1 on the
\* bits of layer i, one bit per neuron in neuron order; the output is as
\* long as the last layer, a second evaluation of the same genome and
\* input returns the same vector, and no evaluation changes a gene, a
\* layer or the input vector.
C11_FeedForwardFold ==
    [][ /\ \A c \in 1..Len(output') :
             /\ output'[c] = Returned(LayerBits(Len(network), input_values))
             /\ Len(output'[c].value) = layer_sizes[Len(layer_sizes)]
             /\ output'[c] = output'[1]
        /\ neurons' = neurons
        /\ layers' = layers
        /\ network' = network
        /\ input_values' = input_values ]_vars

\* a two-layer network has been evaluated twice and its second layer saw
\* bits that differ from the input vector
C11_Witness ==
    /\ pc = "computed"
    /\ Len(output) >= 2
    /\ layer_sizes = <<2, 2>>
    /\ LayerBits(1, input_values) # input_values
    /\ output[2].value # LayerBits(1, input_values)
    /\ output[2].value[1] # output[2].value[2]

\* C12: select() returns a member of the population and leaves the
\* population and its genes unchanged; every selection weight
\* exp(fitness - max fitness) is strictly positive, so their sum is
\* positive and every individual of the population can be returned.
C12_EveryIndividualSelectable ==
    [][ /\ \A k \in 1..Len(population) : probabilities[k] > 0
        /\ SelectChoices = 1..Len(population)
        /\ pc \in {"select1", "select2"} =>
             /\ population' = population
             /\ neurons' = neurons
             /\ layers' = layers
             /\ pc = "select1" => \E k \in 1..Len(population) : parent1' = population[k]
             /\ pc = "select2" => \E k \in 1..Len(population) : parent2' = population[k] ]_vars

\* the positions at which network n holds different genes in the heap N
\* and in the heap of the current state
ChangedGenes(n, N) ==
    { pos \in Positions(n) : N[layers[n[pos[1]]][pos[2]]] # GeneAt(n, pos) }

\* C13: one call of the search's mutate(child) leaves the child's
\* fingerprint unchanged or changes the gene of exactly one position; the
\* new gene is legal for input_size inputs in layer 0 and for as many
\* inputs as layer i-1 has neurons in layer i, and the layers and their
\* neuron counts stay as they are.
C13_MutateOneGene ==
    [][ pc = "mutate" =>
          /\ layers' = layers
          /\ Cardinality(ChangedGenes(child, neurons')) <= 1
          /\ \A id \in DOMAIN neurons \ { layers[child[pos[1]]][pos[2]] : pos \in Positions(child) } :
               neurons'[id] = neurons[id]
          /\ \A pos \in ChangedGenes(child, neurons') :
               GeneInvariant(neurons'[layers[child[pos[1]]][pos[2]]],
                             IF pos[1] = 1 THEN input_size
                             ELSE Len(layers[child[pos[1] - 1]])) ]_vars

\* a mutated child whose layer-1 gene reads the last neuron of the
\* three-neuron layer 0 in a way no individual of the population does
C13_Witness ==
    /\ Len(new_population) = 1
    /\ GeneAt(new_population[1], <<2, 1>>) = Neuron("AND", <<1, 2>>)
    /\ \E k \in 1..Len(population) :
         \A pos \in Positions(population[k]) \ { <<2, 1>> } :
            GeneAt(new_population[1], pos) = GeneAt(population[k], pos)

\* the genes that are legal for a neuron with num_inputs inputs
LegalGenes(num_inputs) ==
    { g \in UNION { [operator : Operators, inputs : [1..len -> 0..(num_inputs - 1)]] :
                    len \in 1..2 } :
        GeneInvariant(g, num_inputs) }

\* the neuron the next neuron.mutate(num_inputs) of network.mutate() is
\* called on
MutatedNeuron == layers[network[mutating.layer + 1]][mutating.neuron + 1]

\* C14: after neuron.mutate(num_inputs) the neuron holds (NOT, [0]) if
\* num_inputs = 1, and for num_inputs >= 2 a gene with an operator of
\* AND, OR, XOR, NOT, one index for NOT and two distinct indices otherwise,
\* all in [0, num_inputs), whatever gene it held before; and every such
\* gene, in either index order, is a possible outcome.
C14_NeuronMutateOutcomes ==
    [][ (pc = "mutating" /\ mutating.num_inputs >= 1) =>
          /\ mutating.num_inputs = 1 =>
               neurons'[MutatedNeuron] = Neuron("NOT", <<0>>)
          /\ neurons'[MutatedNeuron] \in LegalGenes(mutating.num_inputs)
          /\ \A g \in LegalGenes(mutating.num_inputs) :
               ENABLED (NeuronMutateCall /\ neurons'[MutatedNeuron] = g) ]_vars

\* mutation has left an XOR gene with its indices in descending order and
\* a NOT gene that reads index 1
C14_Witness ==
    /\ pc \in {"mutating", "built"}
    /\ error = "none"
    /\ \E id \in DOMAIN neurons : neurons[id] = Neuron("XOR", <<1, 0>>)
    /\ \E id \in DOMAIN neurons : neurons[id] = Neuron("NOT", <<1>>)

\* C15: network.mutate() re-randomises the neurons of layer 0 with the
\* network's input_size as input count and those of layer i > 0 with the
\* neuron count of layer i-1, so that a layer-0 gene of a network with
\* input_size > 2 can read any index below input_size.
C15_MutateUsesInputSize ==
    pc = "mutating" =>
        /\ mutating.num_inputs =
             (IF mutating.layer = 0 THEN input_size
              ELSE Len(layers[network[mutating.layer]]))
        /\ mutating.layer = 0 =>
             ENABLED (NeuronMutateCall
                        /\ neurons'[MutatedNeuron] = Neuron("NOT", <<input_size - 1>>))

\* every neuron of layer 0 holds (NOT, [0])
AllNotZero ==
    /\ Len(network) > 0
    /\ Len(layers[network[1]]) > 0
    /\ \A j \in 1..Len(layers[network[1]]) :
         neurons[layers[network[1]][j]] = Neuron("NOT", <<0>>)

\* C16: when network.mutate() is called while the first neuron of layer 0
\* holds a NOT gene, layer 0 is re-randomised with input count 1 whatever
\* input_size is, each of its neurons is left as (NOT, [0]), and once all
\* of layer 0 is (NOT, [0]) every later network.mutate() leaves it so.
C16_NotGeneCollapsesLayer ==
    [][ /\ ( /\ pc = "built"
             /\ pc' = "mutating"
             /\ neurons[layers[network[1]][1]].operator = "NOT" )
          => (mutating'.layer = 0 /\ mutating'.num_inputs = 1)
        /\ (pc = "mutating" /\ mutating.layer = 0 /\ mutating.num_inputs = 1)
          => /\ \A j \in 1..(mutating.neuron + 1) :
                  neurons'[layers[network[1]][j]] = Neuron("NOT", <<0>>)
             /\ (pc' = "built" \/ mutating'.layer > 0) => AllNotZero'
        /\ ( /\ AllNotZero
             /\ \/ pc = "built"
                \/ pc = "mutating" /\ mutating.layer > 0
                \/ pc = "mutating" /\ mutating.num_inputs = 1 )
          => AllNotZero' ]_vars

\* a two-neuron layer 0 of a network with input_size 3 has collapsed to
\* (NOT, [0]) and is being re-randomised once more with input count 1
C16_Witness ==
    /\ pc = "mutating"
    /\ input_size = 3
    /\ Len(layers[network[1]]) = 2
    /\ AllNotZero
    /\ mutating.layer = 0
    /\ mutating.neuron = 1
    /\ mutating.num_inputs = 1

\* C17: GA() leaves its loop only through the exact-match check and has no
\* ceiling on generations: on a target with a gene that neither the
\* constructor nor Neuron.mutate produces, no population reaches
\* max_fitness, GA() never returns, and each end of a generation adds one
\* to the generation counter, which the model stops at MaxGeneration and
\* which reaches that value and stays there.
C17_UnreachableTargetNeverReturns ==
    /\ [](pc # "done")
    /\ [](\A n \in Individuals :
            Cardinality(MatchingPositions(target_structure,
                                          Structure(n, layers, neurons)))
              < SumLen(target_structure))
    /\ [][pc = "replace" =>
            /\ generation' = Min(generation + 1, MaxGeneration)
            /\ pc' = NextChildPc(0)]_vars
    /\ <>[](generation = MaxGeneration)

\* the search for a target with the gene AND(0, 0) has ended its last
\* counted generation with a population one gene away from the target's
\* operator and is building the next one
C17_Witness ==
    /\ generation = MaxGeneration
    /\ pc = "select1"
    /\ target_structure = << << <<"AND", <<0, 0>>>> >> >>
    /\ \E k \in 1..Len(population) :
         neurons[layers[population[k][1]][1]].operator = "AND"

BestFitness(pop) == MaxOf([k \in 1..Len(pop) |-> fitness(pop[k])])

\* C19: each generation ends by replacing the whole population with the
\* population_size children built in it, which are objects of their own
\* (no member of the old population is kept by rule); GA() returns only
\* at the end of a generation, on the newly built population and exactly
\* when its best fitness is max_fitness, so never on the initial
\* population; otherwise the next generation starts.  The best fitness of
\* the new population can be lower than that of the one it replaces.
C19_WholesaleReplacement ==
    [][ /\ pc' = "done" => pc \in {"replace", "done"}
        /\ (pc # "replace" /\ pc # "ga") => population' = population
        /\ pc = "replace" =>
             /\ Len(new_population) = population_size
             /\ Len(population') = population_size
             /\ \A k \in 1..Len(new_population) :
                  /\ Structure(population'[k], layers', neurons') = net(new_population[k])
                  /\ \A m \in 1..Len(population) :
                       Objects(new_population[k]) \cap Objects(population[m]) = {}
             /\ (pc' = "done") = (BestFitness(new_population) = max_fitness)
             /\ pc' = "done" =>
                  /\ generation' = generation
                  /\ Structure(best_network', layers', neurons') = target_structure
             /\ pc' # "done" => (pc' = "select1" /\ new_population' = << >>) ]_vars

\* the initial population holds an exact match of the target, GA() did not
\* return on it, and the first generation built ends with a best fitness
\* below that of the population it is about to replace
C19_Witness ==
    /\ pc = "replace"
    /\ generation = 0
    /\ BestFitness(population) = max_fitness
    /\ BestFitness(new_population) < BestFitness(population)

====
